---------------------------- MODULE Spec2Model ----------------------------
(***************************************************************************)
(* A model of Source/Scene/EsriImageServerTerrainProvider.js: the provider *)
(* constructor with its deferred metadata callback, the asynchronous       *)
(* createTileEllipsoidGeometry pipeline (footprint, raster request,        *)
(* readback, tessellation, attachment) and the unsupported                 *)
(* createTilePlaneGeometry entry point.                                    *)
(*                                                                         *)
(* Angles are exact rationals in units of pi, written <<n, d>> for         *)
(* n*pi/d with d > 0 and gcd(n, d) = 1.                                    *)
(***************************************************************************)
EXTENDS Integers, Sequences, FiniteSets, TLC

VARIABLES provider, metadata, thrown, tiles, requests, hist, granularity

vars == <<provider, metadata, thrown, tiles, requests, hist, granularity>>

(***************************************************************************)
(* Bounds of the model.                                                    *)
(***************************************************************************)
MaxRequests == 3

LevelBound == 3

GranularityLevels == 2

MaxError == 2

(***************************************************************************)
(* Values.                                                                 *)
(***************************************************************************)
Undefined == "undefined"

ServiceUrl == "https://example/ImageServer"

Tokens == {Undefined, "", "T"}

Proxies == {Undefined, "proxy"}

Projections == {"WGS84", "MERCATOR"}

UrlRequired == "DeveloperError: description.url is required."

NotSupported == "DeveloperError: Not supported yet."

EmptyDescription ==
    [present |-> TRUE, url |-> Undefined, token |-> Undefined, proxy |-> Undefined]

\* The arguments a caller may pass to the constructor. present = FALSE is the
\* missing argument.
MissingDescription == [EmptyDescription EXCEPT !.present = FALSE]

Descriptions ==
    {MissingDescription} \cup
    [present : {TRUE}, url : {Undefined, ServiceUrl}, token : Tokens, proxy : Proxies]

\* The descriptions of the scene in which requests overlap and race.
SceneDescriptions ==
    {MissingDescription,
     EmptyDescription,
     [EmptyDescription EXCEPT !.url = ServiceUrl, !.token = "T", !.proxy = "proxy"]}

defaultValue(a, b) == IF a.present THEN a ELSE b

(***************************************************************************)
(* Rational arithmetic in units of pi.                                     *)
(***************************************************************************)
Abs(n) == IF n < 0 THEN -n ELSE n

RECURSIVE Gcd(_, _)
Gcd(a, b) == IF b = 0 THEN a ELSE Gcd(b, a % b)

Rat(n, d) ==
    LET s == IF d < 0 THEN -1 ELSE 1
        g == Gcd(Abs(n), Abs(d))
    IN  <<(s * n) \div g, (s * d) \div g>>

RatAdd(a, b) == Rat(a[1] * b[2] + b[1] * a[2], a[2] * b[2])

RatNeg(a) == <<-a[1], a[2]>>

RatMulInt(a, k) == Rat(a[1] * k, a[2])

RatDivInt(a, k) == Rat(a[1], a[2] * k)

RatLess(a, b) == a[1] * b[2] < b[1] * a[2]

RatLeq(a, b) == a[1] * b[2] <= b[1] * a[2]

PI == <<1, 1>>

TWO_PI == <<2, 1>>

PI_OVER_TWO == <<1, 2>>

\* ShiftLeft adding one tile per level instead of doubling.
ShiftLeftLinear(a, n) == a * (n + 1)

\* a << n on the 32-bit integers; for a <= 2 and n <= maxLevel = 25 the
\* result is below 2^31 and no bit is lost.
ShiftLeft(a, n) == a * 2^n

(***************************************************************************)
(* The default GeographicTilingScheme and the tiles it addresses.          *)
(***************************************************************************)
GeographicTilingScheme ==
    [numberOfLevelZeroTilesX |-> 2,
     numberOfLevelZeroTilesY |-> 1,
     ellipsoid |-> "WGS84"]

Tile(level, x, y) == [level |-> level, x |-> x, y |-> y]

TilesAtLevel(scheme, level) ==
    {Tile(level, x, y) :
        x \in 0..(scheme.numberOfLevelZeroTilesX * 2^level - 1),
        y \in 0..(scheme.numberOfLevelZeroTilesY * 2^level - 1)}

ValidTiles == UNION {TilesAtLevel(GeographicTilingScheme, l) : l \in 0..LevelBound}

\* The tiles of the scene in which requests overlap and race.
SceneTiles == {Tile(0, 0, 0), Tile(1, 3, 0)}

NoMesh == [vertices |-> <<>>, triangles |-> 0]

FreshTile == [mesh |-> NoMesh, ready |-> FALSE]

(***************************************************************************)
(* The provider before and after construction.                             *)
(***************************************************************************)
NoProvider ==
    [status |-> "none",
     url |-> Undefined,
     token |-> Undefined,
     tilingScheme |-> Undefined,
     projection |-> Undefined,
     maxLevel |-> Undefined,
     proxy |-> Undefined,
     logo |-> Undefined,
     ready |-> Undefined]

NoHistory(tileSet) == [attached |-> [t \in tileSet |-> 0], issued |-> <<>>]

\* No granularity has been computed.
NoResults == [l \in {} |-> <<0, 1>>]

NoGranularity ==
    [scheme |-> [ellipsoid |-> [radii |-> [x |-> 1, y |-> 1, z |-> 1]],
                 levelMaximumGeometricError |-> [l \in {} |-> 0]],
     results |-> NoResults]

InitScene(tileSet) ==
    /\ granularity = NoGranularity
    /\ provider = NoProvider
    /\ metadata = "none"
    /\ thrown = "none"
    /\ tiles = [t \in tileSet |-> FreshTile]
    /\ requests = <<>>
    /\ hist = NoHistory(tileSet)

Init == InitScene(SceneTiles)

\* Construct with the url check moved below the assignments and the jsonp call.
ConstructChecksLate(description) ==
    LET d == defaultValue(description, EmptyDescription)
        p == [status |-> "constructed",
              url |-> d.url,
              token |-> d.token,
              tilingScheme |-> GeographicTilingScheme,
              projection |-> "WGS84",
              maxLevel |-> 25,
              proxy |-> d.proxy,
              logo |-> Undefined,
              ready |-> Undefined]
    IN  IF d.url = Undefined
        THEN [provider |-> [p EXCEPT !.status = "threw"],
              metadata |-> "pending",
              thrown |-> UrlRequired]
        ELSE [provider |-> p, metadata |-> "pending", thrown |-> "none"]

\* The fields the constructor sets and the state of the jsonp request it
\* issues, or the error it throws.
Construct(description) ==
    LET d == defaultValue(description, EmptyDescription)
    IN  IF d.url = Undefined
        THEN [provider |-> [NoProvider EXCEPT !.status = "threw"],
              metadata |-> "none",
              thrown |-> UrlRequired]
        ELSE [provider |->
                 [status |-> "constructed",
                  url |-> d.url,
                  token |-> d.token,
                  tilingScheme |-> GeographicTilingScheme,
                  projection |-> "WGS84",
                  maxLevel |-> 25,
                  proxy |-> d.proxy,
                  logo |-> Undefined,
                  ready |-> Undefined],
              metadata |-> "pending",
              thrown |-> "none"]

EsriImageServerTerrainProvider(description) ==
    /\ provider.status = "none"
    /\ LET c == Construct(description)
       IN  /\ provider' = c.provider
           /\ metadata' = c.metadata
           /\ thrown' = c.thrown
    /\ UNCHANGED <<tiles, requests, hist, granularity>>

\* What the metadata response may report.
MetadataResponses ==
    [copyrightText : {"Copyright Esri"}, wkid : {4326, 102100}]

\* OnMetadata with the scheme reconfiguration that the source keeps in a
\* comment (lines 96-116) switched on.
OnMetadataReconfigures(p, data) ==
    [p EXCEPT !.projection = IF data.wkid = 102100 THEN "MERCATOR" ELSE "WGS84",
              !.tilingScheme =
                  IF data.wkid = 102100
                  THEN [GeographicTilingScheme EXCEPT !.numberOfLevelZeroTilesX = 1]
                  ELSE GeographicTilingScheme,
              !.logo = data.copyrightText,
              !.ready = "true"]

\* The provider after the deferred callback of the constructor has run on
\* data; the logo is the 800 x 20 canvas, identified by the text drawn on it.
OnMetadata(p, data) ==
    [p EXCEPT !.logo = data.copyrightText,
              !.ready = "true"]

MetadataLoaded(data) ==
    /\ provider.status = "constructed"
    /\ metadata = "pending"
    /\ metadata' = "resolved"
    /\ provider' = OnMetadata(provider, data)
    /\ UNCHANGED <<thrown, tiles, requests, hist, granularity>>

\* MetadataFailed with an errback that marks the provider ready.
MetadataFailedMarksReady ==
    /\ provider.status = "constructed"
    /\ metadata = "pending"
    /\ metadata' = "rejected"
    /\ provider' = [provider EXCEPT !.ready = "true"]
    /\ UNCHANGED <<thrown, tiles, requests, hist, granularity>>

\* jsonp rejects: the constructor registers no errback.
MetadataFailed ==
    /\ provider.status = "constructed"
    /\ metadata = "pending"
    /\ metadata' = "rejected"
    /\ UNCHANGED <<provider, thrown, tiles, requests, hist, granularity>>

(***************************************************************************)
(* computeDesiredGranularity, on tiling schemes with any error budget per  *)
(* level and ellipsoids of any radii. Its result is a rational <<n, d>>    *)
(* in radians.                                                             *)
(***************************************************************************)
Radii == {1, 2}

ErrorSchemes ==
    [ellipsoid : [radii : [x : Radii, y : Radii, z : Radii]],
     levelMaximumGeometricError : [0..GranularityLevels -> 0..MaxError]]

getLevelMaximumGeometricError(tilingScheme, level) ==
    tilingScheme.levelMaximumGeometricError[level]

getRadii(ellipsoid) == ellipsoid.radii

\* computeDesiredGranularity dividing by the polar radius.
computeDesiredGranularityPolar(tilingScheme, tile) ==
    LET ellipsoid == tilingScheme.ellipsoid
        level == tile.level
        maxErrorMeters == getLevelMaximumGeometricError(tilingScheme, level)
        maxErrorRadians == Rat(maxErrorMeters, getRadii(ellipsoid).z)
    IN  maxErrorRadians

computeDesiredGranularity(tilingScheme, tile) ==
    LET ellipsoid == tilingScheme.ellipsoid
        level == tile.level
        maxErrorMeters == getLevelMaximumGeometricError(tilingScheme, level)
        maxErrorRadians == Rat(maxErrorMeters, getRadii(ellipsoid).x)
    IN  maxErrorRadians

\* A call of computeDesiredGranularity for a tile of a level not yet asked
\* for; the result is kept by level.
DesiredGranularity(tile) ==
    /\ tile.level \notin DOMAIN granularity.results
    /\ granularity' =
          [granularity EXCEPT !.results =
              @ @@ (tile.level :> computeDesiredGranularity(granularity.scheme, tile))]
    /\ UNCHANGED <<provider, metadata, thrown, tiles, requests, hist>>

(***************************************************************************)
(* createTileEllipsoidGeometry: the footprint of the raster request.       *)
(***************************************************************************)
\* tileY without the - 1.
tileYOffByOne(tilesInYDirection, tile) == tilesInYDirection - tile.y

\* tileY without the inversion.
tileYNotInverted(tilesInYDirection, tile) == tile.y

\* tileY inverting only the rows of the southern half.
tileYFolded(tilesInYDirection, tile) ==
    IF 2 * tile.y < tilesInYDirection
    THEN tile.y
    ELSE tilesInYDirection - tile.y - 1

tileY(tilesInYDirection, tile) == tilesInYDirection - tile.y - 1

\* The bounding box of the raster request for tile under tilingScheme.
Footprint(tilingScheme, tile) ==
    LET level == tile.level
        tilesInXDirection == ShiftLeft(tilingScheme.numberOfLevelZeroTilesX, level)
        tilesInYDirection == ShiftLeft(tilingScheme.numberOfLevelZeroTilesY, level)
        xDelta == RatDivInt(TWO_PI, tilesInXDirection)
        yDelta == RatDivInt(PI, tilesInYDirection)
        ty == tileY(tilesInYDirection, tile)
        xStart == RatAdd(RatNeg(PI), RatMulInt(xDelta, tile.x))
        xStop == RatAdd(RatNeg(PI), RatMulInt(xDelta, tile.x + 1))
        yStart == RatAdd(RatNeg(PI_OVER_TWO), RatMulInt(yDelta, ty))
        yStop == RatAdd(RatNeg(PI_OVER_TWO), RatMulInt(yDelta, ty + 1))
    IN  <<xStart, yStart, xStop, yStop>>

West(bbox) == bbox[1]

South(bbox) == bbox[2]

East(bbox) == bbox[3]

North(bbox) == bbox[4]

\* number + string: the text of a number, one text per value.
NumberToString(a) == ToString(a[1]) \o "pi/" \o ToString(a[2])

\* A url is the sequence of the pieces concatenated into it. The proxy
\* rewrites the whole url it is handed: every piece of it ends up escaped
\* behind the proxy's own address.
escaped(piece) == "escaped(" \o piece \o ")"

getURL(proxy, url) == <<proxy, "?">> \o [i \in DOMAIN url |-> escaped(url[i])]

\* RequestUrl with the token appended after the proxy rewrite.
RequestUrlProxyFirst(p, bbox) ==
    LET base == <<p.url, "/exportImage?format=tiff&f=image&size=256%2C256&bbox=",
                  NumberToString(bbox[1]), "%2C", NumberToString(bbox[2]), "%2C",
                  NumberToString(bbox[3]), "%2C", NumberToString(bbox[4])>>
        proxied == IF p.proxy # Undefined THEN getURL(p.proxy, base) ELSE base
    IN  IF p.token \notin {Undefined, ""}
        THEN proxied \o <<"&token=", p.token>>
        ELSE proxied

RequestUrl(p, bbox) ==
    LET base == <<p.url, "/exportImage?format=tiff&f=image&size=256%2C256&bbox=",
                  NumberToString(bbox[1]), "%2C", NumberToString(bbox[2]), "%2C",
                  NumberToString(bbox[3]), "%2C", NumberToString(bbox[4])>>
        withToken == IF p.token \notin {Undefined, ""}
                     THEN base \o <<"&token=", p.token>>
                     ELSE base
    IN  IF p.proxy # Undefined THEN getURL(p.proxy, withToken) ELSE withToken

(***************************************************************************)
(* The pending handle and the request record.                              *)
(***************************************************************************)
Pending == [state |-> "pending", value |-> "none"]

Resolved(v) == [state |-> "resolved", value |-> v]

Rejected(e) == [state |-> "rejected", value |-> e]

\* NewRequest returning the handle with the raster request not yet issued.
NewRequestDeferred(p, tile) ==
    LET bbox == Footprint(p.tilingScheme, tile)
    IN  [tile |-> tile,
         tilingScheme |-> p.tilingScheme,
         bbox |-> bbox,
         url |-> RequestUrl(p, bbox),
         state |-> "Requesting",
         phases |-> <<>>,
         handle |-> Pending]

\* The request createTileEllipsoidGeometry issues for tile and the handle it
\* returns.
NewRequest(p, tile) ==
    LET bbox == Footprint(p.tilingScheme, tile)
    IN  [tile |-> tile,
         tilingScheme |-> p.tilingScheme,
         bbox |-> bbox,
         url |-> RequestUrl(p, bbox),
         state |-> "Requesting",
         phases |-> <<"issued">>,
         handle |-> Pending]

\* What the history keeps of a call: the tile as the call found it, the
\* number of meshes attached to it so far and the provider's ready flag.
IssueRecord(tile) ==
    [tile |-> tiles[tile],
     attached |-> hist.attached[tile],
     providerReady |-> provider.ready]

\* Accepts refusing the call before the provider is ready.
AcceptsWhenReady(tile) ==
    /\ provider.status = "constructed"
    /\ provider.ready = "true"
    /\ tile \in DOMAIN tiles

\* The states in which the call issues a request and returns its handle:
\* the function has no early return and throws nothing.
Accepts(tile) ==
    /\ provider.status = "constructed"
    /\ tile \in DOMAIN tiles

\* createTileEllipsoidGeometry sharing the request already in flight for
\* the tile instead of issuing another.
createTileEllipsoidGeometryShared(tile) ==
    /\ Accepts(tile)
    /\ requests' =
          IF \E r \in DOMAIN requests :
                requests[r].tile = tile /\ requests[r].state = "Requesting"
          THEN requests
          ELSE Append(requests, NewRequest(provider, tile))
    /\ hist' = [hist EXCEPT !.issued = Append(@, IssueRecord(tile))]
    /\ UNCHANGED <<provider, metadata, thrown, tiles, granularity>>

createTileEllipsoidGeometry(tile) ==
    /\ Accepts(tile)
    /\ requests' = Append(requests, NewRequest(provider, tile))
    /\ hist' = [hist EXCEPT !.issued = Append(@, IssueRecord(tile))]
    /\ UNCHANGED <<provider, metadata, thrown, tiles, granularity>>

(***************************************************************************)
(* The callback of createTileEllipsoidGeometry on the loaded image.        *)
(***************************************************************************)
\* The images a fetch may deliver: too small to tessellate or not, and
\* readable through a canvas or not.
ImageSides == {1, 2}

Images == [width : ImageSides, height : ImageSides, readable : BOOLEAN]

\* context.getImageData(0, 0, width, height).data of the image of fetch r:
\* one pixel per cell, row-major.
getImageData(r, image) ==
    [i \in 1..(image.width * image.height) |->
        [fetch |-> r,
         row |-> (i - 1) \div image.width,
         col |-> (i - 1) % image.width]]

\* HeightmapTessellator.computeBuffers: one vertex per sample, two triangles
\* per quad of samples.
computeBuffers(heightmap, width, height) ==
    [vertices |-> heightmap, triangles |-> 2 * (width - 1) * (height - 1)]

\* TerrainProvider.createTileEllipsoidGeometryFromBuffers
createTileEllipsoidGeometryFromBuffers(tile, buffers) ==
    [mesh |-> buffers, ready |-> TRUE]

\* OnImage with the geometry created before the grid is checked.
OnImageAttachesEarly(tile, r, image) ==
    IF ~image.readable
    THEN [tile |-> tile,
          phases |-> <<"arrived", "decode failed">>,
          handle |-> Rejected("DecodeError")]
    ELSE LET pixels == getImageData(r, image)
             buffers == computeBuffers(pixels, image.width, image.height)
             attached == createTileEllipsoidGeometryFromBuffers(tile, buffers)
         IN  IF image.width < 2 \/ image.height < 2
             THEN [tile |-> attached,
                   phases |-> <<"arrived", "decoded", "tessellation failed">>,
                   handle |-> Rejected("TessellationError")]
             ELSE [tile |-> attached,
                   phases |-> <<"arrived", "decoded", "tessellated", "attached">>,
                   handle |-> Resolved(TRUE)]

\* OnImage writing the new vertices into the tile's existing vertex buffer
\* and stopping half way.
OnImageMergesBuffers(tile, r, image) ==
    IF ~image.readable
    THEN [tile |-> tile,
          phases |-> <<"arrived", "decode failed">>,
          handle |-> Rejected("DecodeError")]
    ELSE IF image.width < 2 \/ image.height < 2
    THEN [tile |-> tile,
          phases |-> <<"arrived", "decoded", "tessellation failed">>,
          handle |-> Rejected("TessellationError")]
    ELSE LET pixels == getImageData(r, image)
             buffers == computeBuffers(pixels, image.width, image.height)
             old == tile.mesh.vertices
             merged == [i \in DOMAIN buffers.vertices |->
                           IF i > Len(buffers.vertices) \div 2 /\ i \in DOMAIN old
                           THEN old[i]
                           ELSE buffers.vertices[i]]
         IN  [tile |-> createTileEllipsoidGeometryFromBuffers(
                           tile, [buffers EXCEPT !.vertices = merged]),
              phases |-> <<"arrived", "decoded", "tessellated", "attached">>,
              handle |-> Resolved(TRUE)]

\* OnImage with the body wrapped in a try/catch that returns true.
OnImageSwallowsErrors(tile, r, image) ==
    IF ~image.readable
    THEN [tile |-> tile,
          phases |-> <<"arrived", "decode failed">>,
          handle |-> Resolved(TRUE)]
    ELSE IF image.width < 2 \/ image.height < 2
    THEN [tile |-> tile,
          phases |-> <<"arrived", "decoded", "tessellation failed">>,
          handle |-> Resolved(TRUE)]
    ELSE LET pixels == getImageData(r, image)
             buffers == computeBuffers(pixels, image.width, image.height)
         IN  [tile |-> createTileEllipsoidGeometryFromBuffers(tile, buffers),
              phases |-> <<"arrived", "decoded", "tessellated", "attached">>,
              handle |-> Resolved(TRUE)]

\* OnImage returning true without the call that attaches the buffers.
OnImageSkipsAttach(tile, r, image) ==
    IF ~image.readable
    THEN [tile |-> tile,
          phases |-> <<"arrived", "decode failed">>,
          handle |-> Rejected("DecodeError")]
    ELSE IF image.width < 2 \/ image.height < 2
    THEN [tile |-> tile,
          phases |-> <<"arrived", "decoded", "tessellation failed">>,
          handle |-> Rejected("TessellationError")]
    ELSE [tile |-> tile,
          phases |-> <<"arrived", "decoded", "tessellated">>,
          handle |-> Resolved(TRUE)]

\* The callback run on the image of fetch r for a tile in state tile: the
\* tile it leaves, the phases it went through, and what the handle returned
\* by when() settles to (a value returned, or the error thrown).
OnImage(tile, r, image) ==
    IF ~image.readable
    THEN [tile |-> tile,
          phases |-> <<"arrived", "decode failed">>,
          handle |-> Rejected("DecodeError")]
    ELSE IF image.width < 2 \/ image.height < 2
    THEN [tile |-> tile,
          phases |-> <<"arrived", "decoded", "tessellation failed">>,
          handle |-> Rejected("TessellationError")]
    ELSE LET pixels == getImageData(r, image)
             buffers == computeBuffers(pixels, image.width, image.height)
         IN  [tile |-> createTileEllipsoidGeometryFromBuffers(tile, buffers),
              phases |-> <<"arrived", "decoded", "tessellated", "attached">>,
              handle |-> Resolved(TRUE)]

\* The request record once its handle has settled to h.
Settle(request, phases, h) ==
    [request EXCEPT !.state = IF h.state = "resolved" THEN "Ready" ELSE "Failed",
                    !.phases = @ \o phases,
                    !.handle = h]

\* ImageLoaded with the callback closing over one tile variable shared by
\* all calls, which holds the tile of the latest call.
ImageLoadedSharedTile(r, image) ==
    /\ r \in DOMAIN requests
    /\ requests[r].state = "Requesting"
    /\ LET t == requests[Len(requests)].tile
           o == OnImage(tiles[t], r, image)
       IN  /\ tiles' = [tiles EXCEPT ![t] = o.tile]
           /\ requests' = [requests EXCEPT ![r] = Settle(@, o.phases, o.handle)]
           /\ hist' = [hist EXCEPT !.attached[t] =
                          IF o.handle.state = "resolved" THEN @ + 1 ELSE @]
    /\ UNCHANGED <<provider, metadata, thrown, granularity>>

ImageLoaded(r, image) ==
    /\ r \in DOMAIN requests
    /\ requests[r].state = "Requesting"
    /\ LET t == requests[r].tile
           o == OnImage(tiles[t], r, image)
       IN  /\ tiles' = [tiles EXCEPT ![t] = o.tile]
           /\ requests' = [requests EXCEPT ![r] = Settle(@, o.phases, o.handle)]
           /\ hist' = [hist EXCEPT !.attached[t] =
                          IF o.handle.state = "resolved" THEN @ + 1 ELSE @]
    /\ UNCHANGED <<provider, metadata, thrown, granularity>>

\* OnImageError with an errback that marks the tile ready.
OnImageErrorMarksReady(tile) ==
    [tile |-> [tile EXCEPT !.ready = TRUE],
     phases |-> <<"fetch failed">>,
     handle |-> Rejected("FetchError")]

\* loadImage rejects; when() has no errback and passes the rejection on.
OnImageError(tile) ==
    [tile |-> tile, phases |-> <<"fetch failed">>, handle |-> Rejected("FetchError")]

ImageFailed(r) ==
    /\ r \in DOMAIN requests
    /\ requests[r].state = "Requesting"
    /\ LET t == requests[r].tile
           o == OnImageError(tiles[t])
       IN  /\ tiles' = [tiles EXCEPT ![t] = o.tile]
           /\ requests' = [requests EXCEPT ![r] = Settle(@, o.phases, o.handle)]
    /\ UNCHANGED <<provider, metadata, thrown, hist, granularity>>

(***************************************************************************)
(* createTilePlaneGeometry                                                 *)
(***************************************************************************)
\* PlaneGeometry issuing the raster request before it throws.
PlaneGeometryRequestsFirst(state, tile, projection) ==
    [state |-> [state EXCEPT !.requests = Append(@, NewRequest(state.provider, tile))],
     thrown |-> NotSupported]

\* What the call leaves of the program state, and the error it throws.
PlaneGeometry(state, tile, projection) ==
    [state |-> state, thrown |-> NotSupported]

createTilePlaneGeometry(tile, projection) ==
    /\ provider.status = "constructed"
    /\ tile \in DOMAIN tiles
    /\ LET o == PlaneGeometry([provider |-> provider, metadata |-> metadata,
                               tiles |-> tiles, requests |-> requests],
                              tile, projection)
       IN  /\ provider' = o.state.provider
           /\ metadata' = o.state.metadata
           /\ tiles' = o.state.tiles
           /\ requests' = o.state.requests
           /\ thrown' = o.thrown
    /\ UNCHANGED <<hist, granularity>>

(***************************************************************************)
(* The specifications.                                                     *)
(***************************************************************************)
Next ==
    \/ \E d \in SceneDescriptions : EsriImageServerTerrainProvider(d)
    \/ \E data \in MetadataResponses : MetadataLoaded(data)
    \/ MetadataFailed
    \/ /\ Len(requests) < MaxRequests
       /\ \E t \in DOMAIN tiles : createTileEllipsoidGeometry(t)
    \/ \E r \in DOMAIN requests : \E image \in Images : ImageLoaded(r, image)
    \/ \E r \in DOMAIN requests : ImageFailed(r)
    \/ \E t \in DOMAIN tiles : \E p \in Projections : createTilePlaneGeometry(t, p)

Spec == Init /\ [][Next]_vars

\* One provider, one tile of any level up to LevelBound, one request.
MaxSingleRequests == 1

InitSingleTile == \E t \in ValidTiles : InitScene({t})

NextSingleTile ==
    \/ \E d \in Descriptions : EsriImageServerTerrainProvider(d)
    \/ /\ Len(requests) < MaxSingleRequests
       /\ \E t \in DOMAIN tiles : createTileEllipsoidGeometry(t)

SpecSingleTile == InitSingleTile /\ [][NextSingleTile]_vars

\* One provider of the scene's descriptions asked for the geometry of a
\* single tile of any level: the grid of the footprints.
NextGrid ==
    \/ \E d \in SceneDescriptions : EsriImageServerTerrainProvider(d)
    \/ /\ Len(requests) < MaxSingleRequests
       /\ \E t \in DOMAIN tiles : createTileEllipsoidGeometry(t)

SpecGrid == InitSingleTile /\ [][NextGrid]_vars

\* computeDesiredGranularity on every scheme and level, in any order.
InitGranularity ==
    /\ provider = NoProvider
    /\ metadata = "none"
    /\ thrown = "none"
    /\ tiles = [t \in SceneTiles |-> FreshTile]
    /\ requests = <<>>
    /\ hist = NoHistory(SceneTiles)
    /\ granularity \in [scheme : ErrorSchemes, results : {NoResults}]

NextGranularity ==
    \E level \in 0..GranularityLevels : DesiredGranularity(Tile(level, 0, 0))

SpecGranularity == InitGranularity /\ [][NextGranularity]_vars

(***************************************************************************)
(* Vocabulary of the properties.                                           *)
(***************************************************************************)
SuccessPhases == <<"issued", "arrived", "decoded", "tessellated", "attached">>

RequestsFor(t) == {r \in DOMAIN requests : requests[r].tile = t}

\* Request r went through every phase without error.
Succeeded(r) == requests[r].phases = SuccessPhases

\* A phase of request r failed.
PhaseFailed(r) ==
    requests[r].phases[Len(requests[r].phases)] \in
        {"fetch failed", "decode failed", "tessellation failed"}

\* The error of the phase that failed in a request with these phases.
OriginatingError(phases) ==
    CASE phases[Len(phases)] = "fetch failed" -> "FetchError"
      [] phases[Len(phases)] = "decode failed" -> "DecodeError"
      [] phases[Len(phases)] = "tessellation failed" -> "TessellationError"
      [] OTHER -> "none"

\* Every vertex of the mesh comes from the raster of fetch r.
MeshFrom(mesh, r) ==
    /\ mesh.vertices # <<>>
    /\ \A i \in DOMAIN mesh.vertices : mesh.vertices[i].fetch = r

\* In this step request r goes from in flight to settled.
Settles(r) ==
    /\ requests[r].handle.state = "pending"
    /\ requests'[r].handle.state # "pending"

(***************************************************************************)
(* C1: a tile's geometry-ready flag is true only if some request for that  *)
(* tile has had its raster arrive and its decode and tessellation complete *)
(* without error; it is false while every request for the tile is still in *)
(* flight or has failed.                                                   *)
(***************************************************************************)
C1_ReadyOnlyAfterSuccess ==
    \A t \in DOMAIN tiles :
        tiles[t].ready => \E r \in RequestsFor(t) : Succeeded(r)

C1_Witness ==
    \E t \in DOMAIN tiles : \E r, q \in RequestsFor(t) :
        /\ tiles[t].ready
        /\ Succeeded(r)
        /\ requests[q].state = "Requesting"

C3_MeshFromOneFetch ==
    \A t \in DOMAIN tiles :
        tiles[t].mesh # NoMesh
            => \E r \in RequestsFor(t) :
                  /\ Succeeded(r)
                  /\ MeshFrom(tiles[t].mesh, r)

C3_Witness ==
    \E t \in DOMAIN tiles : \E r, q \in RequestsFor(t) :
        /\ r # q
        /\ Succeeded(r)
        /\ Succeeded(q)
        /\ hist.issued[q].attached = 0
        /\ hist.issued[r].attached = 0
        /\ MeshFrom(tiles[t].mesh, r)

(***************************************************************************)
(* C4 as claimed: a tile's mesh is assigned at most once; once the tile is *)
(* Ready no later step changes its mesh buffer or its readiness flag.      *)
(***************************************************************************)
C4_SingleAssignment ==
    [][\A t \in DOMAIN tiles : tiles[t].ready => tiles'[t] = tiles[t]]_vars

(***************************************************************************)
(* C5 as claimed: when the fetch, the decode or the tessellation of a      *)
(* request fails, its handle settles as a failure carrying the originating *)
(* error and the tile's mesh and flag are what they were before the        *)
(* request was issued.                                                     *)
(***************************************************************************)
C5_FailureRestoresIssueState ==
    [][\A r \in DOMAIN requests :
          (Settles(r) /\ PhaseFailed(r)')
              => /\ requests'[r].handle =
                        Rejected(OriginatingError(requests'[r].phases))
                 /\ tiles'[requests[r].tile] = hist.issued[r].tile]_vars

(***************************************************************************)
(* C5 as amended: when a phase of a request fails, its handle settles in   *)
(* that step as a failure carrying the originating error and is never a    *)
(* success, and the failure leaves the tile's mesh and flag as they were   *)
(* just before it; they are what they were when the request was issued     *)
(* unless another request for the tile completed successfully since.       *)
(***************************************************************************)
C5_FailureLeavesTile ==
    /\ [](\A r \in DOMAIN requests :
             PhaseFailed(r) =>
                 requests[r].handle = Rejected(OriginatingError(requests[r].phases)))
    /\ [][\A r \in DOMAIN requests :
             LET t == requests[r].tile
             IN  (Settles(r) /\ PhaseFailed(r)')
                     => /\ tiles'[t] = tiles[t]
                        /\ hist.attached[t] = hist.issued[r].attached
                              => tiles'[t] = hist.issued[r].tile]_vars

C5_Witness ==
    \E r \in DOMAIN requests :
        /\ PhaseFailed(r)
        /\ requests[r].handle.state = "rejected"
        /\ hist.attached[requests[r].tile] > hist.issued[r].attached
        /\ \E q \in DOMAIN requests :
              /\ PhaseFailed(q)
              /\ requests[q].handle.value # requests[r].handle.value

(***************************************************************************)
(* C6: the handle resolves with true only in a step that leaves the tile   *)
(* Ready with the mesh built from that request's raster attached, and no   *)
(* handle is resolved while its tile has no geometry.                      *)
(***************************************************************************)
C6_ResolvedOnlyWhenAttached ==
    /\ [](\A r \in DOMAIN requests :
             requests[r].handle.state = "resolved"
                 => /\ requests[r].handle.value = TRUE
                    /\ tiles[requests[r].tile].ready
                    /\ tiles[requests[r].tile].mesh # NoMesh)
    /\ [][\A r \in DOMAIN requests :
             (Settles(r) /\ requests'[r].handle.state = "resolved")
                 => /\ tiles'[requests[r].tile].ready
                    /\ MeshFrom(tiles'[requests[r].tile].mesh, r)]_vars

C6_Witness ==
    \E r \in DOMAIN requests :
        /\ requests[r].handle = Resolved(TRUE)
        /\ MeshFrom(tiles[requests[r].tile].mesh, r)

(***************************************************************************)
(* C7: every call of createTilePlaneGeometry, for any tile, projection and *)
(* provider state, throws the not-supported error, issues no raster        *)
(* request and leaves the tiles and the provider unchanged.                *)
(***************************************************************************)
C7_PlaneGeometryUnsupported ==
    [][\A t \in DOMAIN tiles : \A p \in Projections :
          createTilePlaneGeometry(t, p)
              => /\ thrown' = NotSupported
                 /\ UNCHANGED <<provider, metadata, tiles, requests>>]_vars

C7_Witness ==
    /\ thrown = NotSupported
    /\ \E r \in DOMAIN requests : requests[r].state = "Requesting"
    /\ \E t \in DOMAIN tiles : tiles[t].ready

(***************************************************************************)
(* C8: constructing with a missing description or a description without    *)
(* url throws the url-required error with no metadata request issued and   *)
(* no provider field set; constructing with a url does not throw it.       *)
(***************************************************************************)
C8_UrlRequired ==
    [][\A d \in Descriptions :
          EsriImageServerTerrainProvider(d)
              => IF ~d.present \/ d.url = Undefined
                 THEN /\ thrown' = UrlRequired
                      /\ metadata' = "none"
                      /\ provider' = [NoProvider EXCEPT !.status = "threw"]
                 ELSE /\ thrown' # UrlRequired
                      /\ provider'.status = "constructed"
                      /\ provider'.url = d.url]_vars

C8_Witness ==
    /\ provider.status = "threw"
    /\ thrown = UrlRequired
    /\ metadata = "none"

(***************************************************************************)
(* C9: for every tile of a level up to LevelBound with x and y in range,   *)
(* the bounding box of the raster request has west < east and              *)
(* south < north and lies within [-pi, pi] x [-pi/2, pi/2].                *)
(***************************************************************************)
C9_FootprintWithinBounds ==
    \A r \in DOMAIN requests :
        LET b == requests[r].bbox
        IN  /\ RatLess(West(b), East(b))
            /\ RatLess(South(b), North(b))
            /\ RatLeq(<<-1, 1>>, West(b))
            /\ RatLeq(East(b), <<1, 1>>)
            /\ RatLeq(<<-1, 2>>, South(b))
            /\ RatLeq(North(b), <<1, 2>>)

C9_Witness ==
    \E r \in DOMAIN requests :
        /\ requests[r].tile.level = LevelBound
        /\ requests[r].tile.y = 0
        /\ North(requests[r].bbox) = <<1, 2>>

(***************************************************************************)
(* C10: with T rows and X columns at the tile's level, the request's       *)
(* south edge is -pi/2 + (pi/T)(T - y - 1), its north edge                 *)
(* -pi/2 + (pi/T)(T - y), its west edge -pi + (2pi/X)x and its east edge   *)
(* -pi + (2pi/X)(x + 1); tile (0, 0, 0) requests the western hemisphere    *)
(* from pole to pole.                                                      *)
(***************************************************************************)
C10_FootprintInvertsY ==
    \A r \in DOMAIN requests :
        LET tile == requests[r].tile
            b == requests[r].bbox
            T == GeographicTilingScheme.numberOfLevelZeroTilesY * 2^tile.level
            X == GeographicTilingScheme.numberOfLevelZeroTilesX * 2^tile.level
        IN  /\ South(b) = Rat(2 * (T - tile.y - 1) - T, 2 * T)
            /\ North(b) = Rat(2 * (T - tile.y) - T, 2 * T)
            /\ West(b) = Rat(2 * tile.x - X, X)
            /\ East(b) = Rat(2 * (tile.x + 1) - X, X)
            /\ tile = Tile(0, 0, 0) => b = <<<<-1, 1>>, <<-1, 2>>, <<0, 1>>, <<1, 2>>>>

C10_Witness ==
    \E r \in DOMAIN requests :
        /\ requests[r].tile = Tile(1, 0, 0)
        /\ requests[r].bbox = <<<<-1, 1>>, <<0, 1>>, <<-1, 2>>, <<1, 2>>>>

(***************************************************************************)
(* C11: the raster request url lists the bounding box as west, south,      *)
(* east, north and has a "&token=" parameter exactly when the provider     *)
(* has a token (a non-empty string); with a token and no proxy it ends     *)
(* with "&token=" and the token; a proxy rewrites the complete url, token  *)
(* included.                                                               *)
(***************************************************************************)
HasToken(p) == p.token # Undefined /\ p.token # ""

\* The url of the request for bbox before any proxy rewrite.
CompleteUrl(p, bbox) ==
    <<p.url, "/exportImage?format=tiff&f=image&size=256%2C256&bbox=",
      NumberToString(West(bbox)), "%2C", NumberToString(South(bbox)), "%2C",
      NumberToString(East(bbox)), "%2C", NumberToString(North(bbox))>>
    \o (IF HasToken(p) THEN <<"&token=", p.token>> ELSE <<>>)

C11_RequestUrlShape ==
    \A r \in DOMAIN requests :
        LET u == requests[r].url
            complete == CompleteUrl(provider, requests[r].bbox)
        IN  /\ ((\E i \in DOMAIN u : u[i] \in {"&token=", escaped("&token=")})
                   <=> HasToken(provider))
            /\ provider.proxy = Undefined
                  => /\ u = complete
                     /\ HasToken(provider)
                           => /\ u[Len(u) - 1] = "&token="
                              /\ u[Len(u)] = provider.token
            /\ provider.proxy # Undefined
                  => u = getURL(provider.proxy, complete)

C11_Witness ==
    \E r \in DOMAIN requests :
        /\ provider.token = "T"
        /\ provider.proxy = "proxy"
        /\ requests[r].url[Len(requests[r].url)] = escaped("T")

(***************************************************************************)
(* C12: a request is never refused because the provider is not ready: in   *)
(* every state of a constructed provider createTileEllipsoidGeometry      *)
(* accepts every tile, and a request issued before the metadata            *)
(* response has the same raster request, tiling scheme and ellipsoid as    *)
(* one issued for the same tile after it: those of the default scheme.     *)
(***************************************************************************)
C12_ServedBeforeReady ==
    /\ provider.status = "constructed"
          => \A t \in DOMAIN tiles : Accepts(t)
    /\ \A r \in DOMAIN requests :
          /\ requests[r].tilingScheme = GeographicTilingScheme
          /\ requests[r].tilingScheme.ellipsoid = "WGS84"
          /\ \A q \in DOMAIN requests :
                requests[q].tile = requests[r].tile
                    => /\ requests[q].url = requests[r].url
                       /\ requests[q].bbox = requests[r].bbox
                       /\ requests[q].tilingScheme = requests[r].tilingScheme

C12_Witness ==
    \E r, q \in DOMAIN requests :
        /\ requests[r].tile = requests[q].tile
        /\ hist.issued[r].providerReady = Undefined
        /\ hist.issued[q].providerReady = "true"
        /\ requests[r].url = requests[q].url

(***************************************************************************)
(* C13: the desired granularity of a level is the scheme's maximum         *)
(* geometric error of that level divided by the ellipsoid's equatorial     *)
(* radius, and it does not increase with the level whenever the scheme's   *)
(* error budget does not.                                                  *)
(***************************************************************************)
BudgetNonIncreasing(scheme) ==
    \A l1, l2 \in DOMAIN scheme.levelMaximumGeometricError :
        l1 < l2 => scheme.levelMaximumGeometricError[l2]
                      <= scheme.levelMaximumGeometricError[l1]

C13_GranularityIsErrorOverRadius ==
    LET scheme == granularity.scheme
        results == granularity.results
    IN  /\ \A l \in DOMAIN results :
              /\ results[l][2] > 0
              /\ results[l][1] * scheme.ellipsoid.radii.x
                    = scheme.levelMaximumGeometricError[l] * results[l][2]
        /\ BudgetNonIncreasing(scheme)
              => \A l1, l2 \in DOMAIN results :
                    l1 < l2 => RatLeq(results[l2], results[l1])

C13_Witness ==
    /\ BudgetNonIncreasing(granularity.scheme)
    /\ DOMAIN granularity.results = 0..GranularityLevels
    /\ granularity.scheme.ellipsoid.radii.x # granularity.scheme.ellipsoid.radii.z
    /\ RatLess(granularity.results[GranularityLevels], granularity.results[0])

(***************************************************************************)
(* C14: the phases of a request occur in the order issued, arrived,        *)
(* decoded, tessellated, attached, none skipped and none repeated: the     *)
(* request is issued when the call returns its pending handle, and no      *)
(* decode, tessellation or attachment precedes the arrival of the raster.  *)
(***************************************************************************)
FailureMarks == {"fetch failed", "decode failed", "tessellation failed"}

\* The phases a request has completed, without the mark of a failed one.
Completed(phases) ==
    IF phases # <<>> /\ phases[Len(phases)] \in FailureMarks
    THEN SubSeq(phases, 1, Len(phases) - 1)
    ELSE phases

C14_PhasesInOrder ==
    \A r \in DOMAIN requests :
        LET done == Completed(requests[r].phases)
        IN  /\ Len(done) >= 1
            /\ Len(done) <= Len(SuccessPhases)
            /\ \A i \in DOMAIN done : done[i] = SuccessPhases[i]
            /\ requests[r].handle = Pending <=> requests[r].phases = <<"issued">>
            /\ requests[r].handle.state = "resolved" <=> done = SuccessPhases
            /\ MeshFrom(tiles[requests[r].tile].mesh, r) => done = SuccessPhases

C14_Witness ==
    \E r, q, s \in DOMAIN requests :
        /\ requests[r].phases = <<"issued">>
        /\ requests[q].phases = SuccessPhases
        /\ requests[s].phases = <<"issued", "arrived", "decoded", "tessellation failed">>

(***************************************************************************)
(* C15: every call of createTileEllipsoidGeometry issues exactly one       *)
(* raster request, also for a tile with a request in flight or completed,  *)
(* and nothing else issues one: the requests issued are as many as the     *)
(* calls made, and a failure re-issues nothing.                            *)
(***************************************************************************)
Calls == Len(hist.issued)

C15_OneRequestPerCall ==
    /\ [](Len(requests) = Calls)
    /\ [][/\ Len(requests') # Len(requests)
             => /\ Len(requests') = Len(requests) + 1
                /\ Calls' = Calls + 1
                /\ \E t \in DOMAIN tiles : createTileEllipsoidGeometry(t)
          /\ \A r \in DOMAIN requests :
                Settles(r) => Len(requests') = Len(requests)]_vars

C15_Witness ==
    \E t \in DOMAIN tiles : \E r, q, s \in RequestsFor(t) :
        /\ r < q
        /\ q < s
        /\ hist.issued[q].attached = 0
        /\ hist.issued[s].attached = 1
        /\ PhaseFailed(q)
        /\ Len(requests) = MaxRequests

(***************************************************************************)
(* C16: the metadata response changes only the provider's logo and ready   *)
(* flag: tiling scheme, projection, maxLevel, url, token and proxy keep    *)
(* in every state the values given at construction (the default            *)
(* geographic scheme, WGS84, 25), whatever the response reports.           *)
(***************************************************************************)
ConstructionFields(p) ==
    <<p.url, p.token, p.proxy, p.projection, p.maxLevel, p.tilingScheme>>

C16_MetadataChangesLogoAndReadyOnly ==
    /\ [](provider.status = "constructed"
             => /\ provider.tilingScheme = GeographicTilingScheme
                /\ provider.projection = "WGS84"
                /\ provider.maxLevel = 25)
    /\ [][/\ provider.status = "constructed"
             => ConstructionFields(provider') = ConstructionFields(provider)
          /\ \A d \in Descriptions :
                (EsriImageServerTerrainProvider(d) /\ provider'.status = "constructed")
                    => <<provider'.url, provider'.token, provider'.proxy>>
                          = <<d.url, d.token, d.proxy>>
          /\ (metadata = "pending" /\ metadata' = "resolved")
                => /\ provider' = [provider EXCEPT !.logo = provider'.logo,
                                                   !.ready = provider'.ready]
                   /\ UNCHANGED <<tiles, requests, thrown>>]_vars

C16_Witness ==
    /\ metadata = "resolved"
    /\ provider.ready = "true"
    /\ provider.logo = "Copyright Esri"
    /\ provider.tilingScheme = GeographicTilingScheme
    /\ \E r \in DOMAIN requests : hist.issued[r].providerReady = "true"

(***************************************************************************)
(* C17: requests for different tiles are independent.  A step in which a   *)
(* request completes or fails leaves the mesh and the ready flag of every  *)
(* other tile unchanged; and whatever the order in which the rasters of    *)
(* requests for distinct tiles arrive, a tile with a single request is in  *)
(* the state its own fetch result determines: untouched while the request  *)
(* is in flight or has failed, ready with a mesh built from that fetch     *)
(* once it has succeeded.                                                  *)
(***************************************************************************)
OwnOutcome(t, r) ==
    IF Succeeded(r)
    THEN /\ tiles[t].ready
         /\ MeshFrom(tiles[t].mesh, r)
    ELSE tiles[t] = FreshTile

C17_TilesIndependent ==
    /\ [](\A t \in DOMAIN tiles :
             \A r \in RequestsFor(t) : RequestsFor(t) = {r} => OwnOutcome(t, r))
    /\ [][\A r \in DOMAIN requests :
             Settles(r) =>
                \A t \in DOMAIN tiles \ {requests[r].tile} : tiles'[t] = tiles[t]]_vars

\* Two requests for distinct tiles in flight together, the later one
\* arriving first.
C17_Witness ==
    \E r1, r2 \in DOMAIN requests :
        /\ r1 < r2
        /\ requests[r1].tile # requests[r2].tile
        /\ requests[r1].state = "Requesting"
        /\ Succeeded(r2)
        /\ tiles[requests[r2].tile].ready
        /\ tiles[requests[r1].tile] = FreshTile

(***************************************************************************)
(* C18: at every level the bounding boxes of the raster requests tile the  *)
(* globe.  The Y inversion is a bijection on the rows, so the box of a     *)
(* tile is one cell of the grid that cuts [-pi, pi] x [-pi/2, pi/2] into   *)
(* the level's columns and rows, it overlaps the box of no other tile of   *)
(* the level in its interior, and every cell is the box of some tile.      *)
(***************************************************************************)
\* The cell in this column from the west and this row from the south.
CellBox(scheme, level, column, row) ==
    LET X == scheme.numberOfLevelZeroTilesX * 2^level
        T == scheme.numberOfLevelZeroTilesY * 2^level
    IN  <<Rat(2 * column - X, X), Rat(2 * row - T, 2 * T),
          Rat(2 * (column + 1) - X, X), Rat(2 * (row + 1) - T, 2 * T)>>

InteriorsDisjoint(a, b) ==
    \/ RatLeq(East(a), West(b))
    \/ RatLeq(East(b), West(a))
    \/ RatLeq(North(a), South(b))
    \/ RatLeq(North(b), South(a))

C18_BoxesTileTheGlobe ==
    \A r \in DOMAIN requests :
        LET tile == requests[r].tile
            scheme == requests[r].tilingScheme
            level == tile.level
            X == scheme.numberOfLevelZeroTilesX * 2^level
            T == scheme.numberOfLevelZeroTilesY * 2^level
        IN  /\ \E column \in 0..(X - 1), row \in 0..(T - 1) :
                  requests[r].bbox = CellBox(scheme, level, column, row)
            /\ \A other \in TilesAtLevel(scheme, level) \ {tile} :
                  InteriorsDisjoint(requests[r].bbox, Footprint(scheme, other))
            /\ \E other \in TilesAtLevel(scheme, level) :
                  Footprint(scheme, other) = CellBox(scheme, level, tile.x, tile.y)

\* A request for a tile whose row index differs from the row of its cell.
C18_Witness ==
    \E r \in DOMAIN requests :
        /\ requests[r].tile.level = LevelBound
        /\ requests[r].tile.y = 1
        /\ requests[r].bbox # CellBox(requests[r].tilingScheme, LevelBound,
                                      requests[r].tile.x, 1)
        /\ \E row \in 2..(2^LevelBound - 1) :
              requests[r].bbox = CellBox(requests[r].tilingScheme, LevelBound,
                                         requests[r].tile.x, row)

(***************************************************************************)
(* C19: the requested footprints nest across levels.  The boxes of the     *)
(* four children (level + 1, 2x + i, 2y + j) of a tile lie inside the box  *)
(* requested for the tile and are its four quadrants, so together they     *)
(* cover it; hence the box requested for a tile lies inside the box of     *)
(* each of its ancestors.                                                  *)
(***************************************************************************)
Children(tile) ==
    {Tile(tile.level + 1, 2 * tile.x + i, 2 * tile.y + j) : i, j \in {0, 1}}

Ancestor(tile, level) ==
    Tile(level, tile.x \div 2^(tile.level - level), tile.y \div 2^(tile.level - level))

Inside(a, b) ==
    /\ RatLeq(West(b), West(a))
    /\ RatLeq(East(a), East(b))
    /\ RatLeq(South(b), South(a))
    /\ RatLeq(North(a), North(b))

Midpoint(a, b) == RatDivInt(RatAdd(a, b), 2)

\* The quadrants of a box cut at the middle of its sides.
Quadrants(b) ==
    LET x == <<West(b), Midpoint(West(b), East(b)), East(b)>>
        y == <<South(b), Midpoint(South(b), North(b)), North(b)>>
    IN  {<<x[i], y[j], x[i + 1], y[j + 1]>> : i, j \in {1, 2}}

C19_FootprintsNest ==
    \A r \in DOMAIN requests :
        LET tile == requests[r].tile
            scheme == requests[r].tilingScheme
            b == requests[r].bbox
        IN  /\ \A child \in Children(tile) : Inside(Footprint(scheme, child), b)
            /\ {Footprint(scheme, child) : child \in Children(tile)} = Quadrants(b)
            /\ \A level \in 0..(tile.level - 1) :
                  Inside(b, Footprint(scheme, Ancestor(tile, level)))

\* A request for the south-east tile of level 1, whose child (2, 7, 3)
\* shares its south-east corner.
C19_Witness ==
    \E r \in DOMAIN requests :
        /\ requests[r].tile = Tile(1, 3, 1)
        /\ Ancestor(Tile(2, 7, 3), 1) = requests[r].tile
        /\ South(Footprint(requests[r].tilingScheme, Tile(2, 7, 3)))
              = South(requests[r].bbox)
        /\ East(Footprint(requests[r].tilingScheme, Tile(2, 7, 3)))
              = East(requests[r].bbox)

(***************************************************************************)
(* C20: the provider's ready flag is true only in states where the         *)
(* metadata response has arrived successfully and the logo is attached;    *)
(* once true it stays true; while the metadata request is pending or has   *)
(* failed the provider is not ready, a failure is final, and               *)
(* createTileEllipsoidGeometry still accepts every tile.                   *)
(***************************************************************************)
C20_ReadyOnlyAfterMetadata ==
    /\ [](provider.ready = "true"
             => /\ metadata = "resolved"
                /\ provider.logo # Undefined)
    /\ [](metadata \in {"pending", "rejected"}
             => /\ provider.ready # "true"
                /\ \A t \in DOMAIN tiles : Accepts(t))
    /\ [][/\ provider.ready = "true" => provider'.ready = "true"
          /\ metadata = "rejected"
                => /\ metadata' = "rejected"
                   /\ provider'.ready # "true"]_vars

\* The metadata request has failed, and a request issued to the provider
\* that is not ready has made its tile ready.
C20_Witness ==
    /\ metadata = "rejected"
    /\ provider.ready # "true"
    /\ provider.logo = Undefined
    /\ \E r \in DOMAIN requests :
          /\ Succeeded(r)
          /\ hist.issued[r].providerReady # "true"
          /\ tiles[requests[r].tile].ready

=============================================================================
